---- MODULE Spec2Model ----
(***************************************************************************)
(* Model of generate_mindmap_data (src/app.py): the summary produced by    *)
(* the summarizer is split into sentences, main topics are selected by     *)
(* keyword, and the mindmap tree is assembled from topics, sub-nodes and   *)
(* the "Other Details" node.  Texts are strings; the splitter, lower() and *)
(* the keyword test work on the characters of those strings.               *)
(***************************************************************************)
EXTENDS Integers, Sequences, FiniteSets, TLC

VARIABLES full_summary, sentences, main_topics, mindmap, used_sentences, k, i, pc

vars == <<full_summary, sentences, main_topics, mindmap, used_sentences, k, i, pc>>

(* ------------------------------ bounds --------------------------------- *)

\* Number of chunk summaries joined into full_summary.
MaxChunks == 3

\* Summaries the summarizer may return for one chunk.
ChunkSummaries ==
    { "",
      "Patient a. Note b.",
      "New DRUG c!  Note b.",
      "Rest d. Walk e?\nSun f.",
      "Cell g. Organ h.",
      "Note b.",
      "Rain i. Fog j. Ice k. Snow l.",
      "and more",
      "Patient has a rare syndrome. It affects the liver. Treatment is ongoing. Weather was sunny. Final note here." }

(* ------------------------------ helpers -------------------------------- *)

Range(seq) == { seq[j] : j \in 1..Len(seq) }

Min(a, b) == IF a < b THEN a ELSE b

CharAt(s, j) == SubSeq(s, j, j)

\* Characters matched by \s and removed by str.strip().
Whitespace == { " ", "\t", "\n", "\r", "\f" }

\* The character class [.!?] of the split pattern.
Terminators == { ".", "!", "?" }

UpperToLower ==
    [ c \in { "A", "B", "C", "D", "E", "F", "G", "H", "I", "J", "K", "L", "M",
              "N", "O", "P", "Q", "R", "S", "T", "U", "V", "W", "X", "Y", "Z" } |->
        CASE c = "A" -> "a" [] c = "B" -> "b" [] c = "C" -> "c" [] c = "D" -> "d"
          [] c = "E" -> "e" [] c = "F" -> "f" [] c = "G" -> "g" [] c = "H" -> "h"
          [] c = "I" -> "i" [] c = "J" -> "j" [] c = "K" -> "k" [] c = "L" -> "l"
          [] c = "M" -> "m" [] c = "N" -> "n" [] c = "O" -> "o" [] c = "P" -> "p"
          [] c = "Q" -> "q" [] c = "R" -> "r" [] c = "S" -> "s" [] c = "T" -> "t"
          [] c = "U" -> "u" [] c = "V" -> "v" [] c = "W" -> "w" [] c = "X" -> "x"
          [] c = "Y" -> "y" [] c = "Z" -> "z" ]

\* str.lower(), the two halves of the string lowered separately
RECURSIVE Lower(_)
Lower(s) ==
    IF s = "" THEN ""
    ELSE IF Len(s) = 1
         THEN IF s \in DOMAIN UpperToLower THEN UpperToLower[s] ELSE s
         ELSE LET half == Len(s) \div 2
              IN Lower(SubSeq(s, 1, half)) \o Lower(SubSeq(s, half + 1, Len(s)))

\* keyword in text   (substring test)
Contains(text, keyword) ==
    \E j \in 1..(Len(text) - Len(keyword) + 1) :
        SubSeq(text, j, j + Len(keyword) - 1) = keyword

\* str.strip()
Strip(s) ==
    LET kept == { j \in 1..Len(s) : CharAt(s, j) \notin Whitespace }
    IN IF kept = {} THEN ""
       ELSE SubSeq(s, CHOOSE j \in kept : \A m \in kept : j <= m,
                      CHOOSE j \in kept : \A m \in kept : j >= m)

\* " ".join(summaries)
RECURSIVE Join(_)
Join(summaries) ==
    IF summaries = <<>> THEN ""
    ELSE IF Len(summaries) = 1 THEN summaries[1]
    ELSE summaries[1] \o " " \o Join(Tail(summaries))

(* ------------------------- sentence splitter --------------------------- *)

\* Positions where a match of \s+ starts: a whitespace character right after
\* a terminator (the lookbehind (?<=[.!?])).
MatchStarts(text) ==
    { p \in 2..Len(text) : /\ CharAt(text, p) \in Whitespace
                           /\ CharAt(text, p - 1) \in Terminators }

\* First position after the whitespace run that starts at p (\s+ is greedy).
MatchEnd(text, p) ==
    CHOOSE q \in (p + 1)..(Len(text) + 1) :
        /\ \A r \in p..(q - 1) : CharAt(text, r) \in Whitespace
        /\ q = Len(text) + 1 \/ CharAt(text, q) \notin Whitespace

\* re.split(r'(?<=[.!?])\s+', text): the pieces between the matches, in order.
ReSplit(text) ==
    LET starts == MatchStarts(text)
        m == Cardinality(starts)
        nth(j) == CHOOSE p \in starts : Cardinality({ q \in starts : q < p }) = j - 1
    IN [ j \in 1..(m + 1) |->
           SubSeq(text,
                  IF j = 1 THEN 1 ELSE MatchEnd(text, nth(j - 1)),
                  IF j = m + 1 THEN Len(text) ELSE nth(j) - 1) ]

StripAll(pieces) == [ j \in 1..Len(pieces) |-> Strip(pieces[j]) ]

NonEmpty(s) == s # ""

SplitSentencesKeepEmpty(text) == StripAll(ReSplit(text))

\* [s.strip() for s in re.split(...) if s.strip()]
SplitSentences(text) == SelectSeq(StripAll(ReSplit(text)), NonEmpty)

(* --------------------------- topic selector ---------------------------- *)

medical_keywords ==
    << "disease", "syndrome", "therapy", "treatment", "diagnosis", "patient",
       "cell", "organ", "system", "medicine", "drug", "condition", "pathology",
       "physiology" >>

\* Some keyword is in sentence.lower().
HasKeyword(sentence) ==
    \E n \in 1..Len(medical_keywords) : Contains(Lower(sentence), medical_keywords[n])

FallbackTopicsTwo(sents) == SubSeq(sents, 1, Min(2, Len(sents)))

\* sentences[:min(3, len(sentences))]
FallbackTopics(sents) == SubSeq(sents, 1, Min(3, Len(sents)))

(* --------------------------- tree assembler ---------------------------- *)

RootNode == [ id |-> "root", text |-> "Medical Document Overview", children |-> <<>> ]

\* Value of mindmap before line 113 assigns it.
NoMindmap == [ id |-> "", text |-> "", children |-> <<>> ]

NodeId(n) == "node-" \o ToString(n)

SubNodeIdNoIndex(n, j) == "node-" \o ToString(n) \o "-sub-" \o ToString(0)

SubNodeId(n, j) == "node-" \o ToString(n) \o "-sub-" \o ToString(j)

OtherSubId(m) == "node-other-sub-" \o ToString(m)

\* Variants of the inner loop with a slip: the cap off by one; used.add()
\* forgotten; used.add() outside the if.
RECURSIVE SubNodeLoopCapFour(_, _, _, _)
SubNodeLoopCapFour(sents, n, pos, acc) ==
    IF pos > Len(sents) THEN acc
    ELSE LET sub_sentence == sents[pos]
         IN IF sub_sentence \notin acc.used /\ acc.sub_nodes_added <= 3
            THEN SubNodeLoopCapFour(sents, n, pos + 1,
                   [ children |-> Append(acc.children,
                                         [ id |-> SubNodeId(n, acc.sub_nodes_added),
                                           text |-> sub_sentence ]),
                     used |-> acc.used \cup { sub_sentence },
                     sub_nodes_added |-> acc.sub_nodes_added + 1 ])
            ELSE SubNodeLoopCapFour(sents, n, pos + 1, acc)

RECURSIVE SubNodeLoopNoMark(_, _, _, _)
SubNodeLoopNoMark(sents, n, pos, acc) ==
    IF pos > Len(sents) THEN acc
    ELSE LET sub_sentence == sents[pos]
         IN IF sub_sentence \notin acc.used /\ acc.sub_nodes_added < 3
            THEN SubNodeLoopNoMark(sents, n, pos + 1,
                   [ children |-> Append(acc.children,
                                         [ id |-> SubNodeId(n, acc.sub_nodes_added),
                                           text |-> sub_sentence ]),
                     used |-> acc.used,
                     sub_nodes_added |-> acc.sub_nodes_added + 1 ])
            ELSE SubNodeLoopNoMark(sents, n, pos + 1, acc)

RECURSIVE SubNodeLoopMarkAll(_, _, _, _)
SubNodeLoopMarkAll(sents, n, pos, acc) ==
    IF pos > Len(sents) THEN acc
    ELSE LET sub_sentence == sents[pos]
         IN IF sub_sentence \notin acc.used /\ acc.sub_nodes_added < 3
            THEN SubNodeLoopMarkAll(sents, n, pos + 1,
                   [ children |-> Append(acc.children,
                                         [ id |-> SubNodeId(n, acc.sub_nodes_added),
                                           text |-> sub_sentence ]),
                     used |-> acc.used \cup { sub_sentence },
                     sub_nodes_added |-> acc.sub_nodes_added + 1 ])
            ELSE SubNodeLoopMarkAll(sents, n, pos + 1,
                   [ acc EXCEPT !.used = acc.used \cup { sub_sentence } ])

\* for sub_sentence in sentences: ... (the loop body from position pos on);
\* acc holds node["children"], used_sentences and sub_nodes_added.
RECURSIVE SubNodeLoop(_, _, _, _)
SubNodeLoop(sents, n, pos, acc) ==
    IF pos > Len(sents) THEN acc
    ELSE LET sub_sentence == sents[pos]
         IN IF sub_sentence \notin acc.used /\ acc.sub_nodes_added < 3
            THEN SubNodeLoop(sents, n, pos + 1,
                   [ children |-> Append(acc.children,
                                         [ id |-> SubNodeId(n, acc.sub_nodes_added),
                                           text |-> sub_sentence ]),
                     used |-> acc.used \cup { sub_sentence },
                     sub_nodes_added |-> acc.sub_nodes_added + 1 ])
            ELSE SubNodeLoop(sents, n, pos + 1, acc)

\* for sub_sentence in sentences: if sub_sentence not in used_sentences: append
RECURSIVE OtherLoop(_, _, _, _)
OtherLoop(sents, used, pos, children) ==
    IF pos > Len(sents) THEN children
    ELSE IF sents[pos] \notin used
         THEN OtherLoop(sents, used, pos + 1,
                        Append(children, [ id |-> OtherSubId(Len(children)),
                                           text |-> sents[pos] ]))
         ELSE OtherLoop(sents, used, pos + 1, children)

OtherDetailsNoEmptyCheck(sents, used) ==
    IF Len(sents) > Cardinality(used)
    THEN << [ id |-> "node-other", text |-> "Other Details",
              children |-> OtherLoop(sents, used, 1, <<>>) ] >>
    ELSE <<>>

\* What lines 145-158 append to mindmap["children"].
OtherDetails(sents, used) ==
    IF Len(sents) > Cardinality(used)
    THEN LET other_details_node ==
                 [ id |-> "node-other", text |-> "Other Details",
                   children |-> OtherLoop(sents, used, 1, <<>>) ]
         IN IF other_details_node.children # <<>>
            THEN << other_details_node >>
            ELSE <<>>
    ELSE <<>>

(* ------------------------------ behaviour ------------------------------ *)

Init ==
    /\ \E n \in 0..MaxChunks : \E summaries \in [1..n -> ChunkSummaries] :
           full_summary = Join(summaries)
    /\ sentences = <<>>
    /\ main_topics = <<>>
    /\ mindmap = NoMindmap
    /\ used_sentences = {}
    /\ k = 1
    /\ i = 0
    /\ pc = "split"

\* line 93
Split ==
    /\ pc = "split"
    /\ sentences' = SplitSentences(full_summary)
    /\ pc' = "scan"
    /\ UNCHANGED <<full_summary, main_topics, mindmap, used_sentences, k, i>>

\* lines 98-102, one sentence of the outer loop
ScanSentence ==
    /\ pc = "scan"
    /\ k <= Len(sentences)
    /\ main_topics' = IF HasKeyword(sentences[k]) /\ sentences[k] \notin Range(main_topics)
                      THEN Append(main_topics, sentences[k])
                      ELSE main_topics
    /\ k' = k + 1
    /\ UNCHANGED <<full_summary, sentences, mindmap, used_sentences, i, pc>>

\* lines 105-120: the fallback, the root and the empty used-set
SelectDone ==
    /\ pc = "scan"
    /\ k > Len(sentences)
    /\ main_topics' = IF main_topics = <<>> /\ sentences # <<>>
                      THEN FallbackTopics(sentences)
                      ELSE main_topics
    /\ mindmap' = RootNode
    /\ used_sentences' = {}
    /\ i' = 0
    /\ pc' = "build"
    /\ UNCHANGED <<full_summary, sentences, k>>

\* lines 122-141, one topic of the outer loop
BuildTopic ==
    /\ pc = "build"
    /\ i < Len(main_topics)
    /\ LET topic_sentence == main_topics[i + 1]
           acc == SubNodeLoop(sentences, i, 1,
                              [ children |-> <<>>,
                                used |-> used_sentences \cup { topic_sentence },
                                sub_nodes_added |-> 0 ])
           node == [ id |-> NodeId(i), text |-> topic_sentence, children |-> acc.children ]
       IN /\ mindmap' = [ mindmap EXCEPT !.children = Append(@, node) ]
          /\ used_sentences' = acc.used
    /\ i' = i + 1
    /\ UNCHANGED <<full_summary, sentences, main_topics, k, pc>>

\* lines 145-160
BuildOther ==
    /\ pc = "build"
    /\ i = Len(main_topics)
    /\ mindmap' = [ mindmap EXCEPT !.children = @ \o OtherDetails(sentences, used_sentences) ]
    /\ pc' = "done"
    /\ UNCHANGED <<full_summary, sentences, main_topics, used_sentences, k, i>>

Next ==
    \/ Split
    \/ ScanSentence
    \/ SelectDone
    \/ BuildTopic
    \/ BuildOther

Spec == Init /\ [][Next]_vars

(* ------------------------- reading the tree ---------------------------- *)

Distinct(seq) == \A a, b \in 1..Len(seq) : a # b => seq[a] # seq[b]

\* The elements of seq in the order of their first occurrence.
RECURSIVE FirstOccurrences(_)
FirstOccurrences(seq) ==
    IF seq = <<>> THEN <<>>
    ELSE LET front == FirstOccurrences(SubSeq(seq, 1, Len(seq) - 1))
             last == seq[Len(seq)]
         IN IF last \in Range(front) THEN front ELSE Append(front, last)

\* Position of the first occurrence of x in seq.
FirstIndex(seq, x) ==
    CHOOSE j \in 1..Len(seq) : seq[j] = x /\ \A m \in 1..(j - 1) : seq[m] # x

TextsOf(nodes) == [ j \in 1..Len(nodes) |-> nodes[j].text ]

IdsOf(nodes) == [ j \in 1..Len(nodes) |-> nodes[j].id ]

IsOther(node) == node.id = "node-other"

OtherPresent == \E j \in 1..Len(mindmap.children) : IsOther(mindmap.children[j])

\* The texts that carry sentences: topic nodes, their sub-nodes and the
\* sub-nodes of node-other, in tree order.
RECURSIVE SentenceTextsOf(_)
SentenceTextsOf(nodes) ==
    IF nodes = <<>> THEN <<>>
    ELSE LET node == Head(nodes)
         IN (IF IsOther(node) THEN <<>> ELSE << node.text >>)
              \o TextsOf(node.children) \o SentenceTextsOf(Tail(nodes))

SentenceTexts == SentenceTextsOf(mindmap.children)

\* Every id of the tree, the root's included.
RECURSIVE IdsUnder(_)
IdsUnder(nodes) ==
    IF nodes = <<>> THEN <<>>
    ELSE << Head(nodes).id >> \o IdsOf(Head(nodes).children) \o IdsUnder(Tail(nodes))

AllIds == << mindmap.id >> \o IdsUnder(mindmap.children)

AllWhitespace(text) == \A j \in 1..Len(text) : CharAt(text, j) \in Whitespace

Selected == pc \in { "build", "done" }

Example ==
    "Patient has a rare syndrome. It affects the liver. Treatment is ongoing. Weather was sunny. Final note here."

(* ------------------------------- claims -------------------------------- *)

\* C1: in the returned tree no sentence string is the text of two different
\* nodes (topic nodes, topic sub-nodes, node-other sub-nodes), so these nodes
\* are no more than the distinct sentences of the input.
C1_NoSentenceTwice ==
    pc = "done" =>
        /\ Distinct(SentenceTexts)
        /\ Len(SentenceTexts) <= Cardinality(Range(sentences))

\* C2: a summary that is empty or only whitespace yields zero sentences, the
\* run does not stop before returning, and with zero sentences the returned
\* tree is exactly the root with no children.
C2_EmptySummary ==
    /\ AllWhitespace(full_summary) =>
           /\ pc # "split" => sentences = <<>>
           /\ pc # "done" => ENABLED Next
    /\ pc = "done" /\ sentences = <<>> =>
           mindmap = [ id |-> "root", text |-> "Medical Document Overview",
                       children |-> <<>> ]

C2_Witness ==
    /\ pc = "done"
    /\ full_summary # ""
    /\ AllWhitespace(full_summary)
    /\ mindmap.id = "root"
    /\ mindmap.children = <<>>

\* C3: node-other is in the returned tree iff some sentence is not in the
\* used-set after the topics were built; when present it is the root's last
\* child and has at least one child.
C3_OtherIffRemaining ==
    pc = "done" =>
        /\ OtherPresent <=> (\E s \in Range(sentences) : s \notin used_sentences)
        /\ \A j \in 1..Len(mindmap.children) :
               IsOther(mindmap.children[j]) =>
                   /\ j = Len(mindmap.children)
                   /\ mindmap.children[j].children # <<>>

\* Repeated sentences make len(sentences) exceed the used-set although every
\* distinct sentence is used: node-other is left out.
C3_Witness ==
    /\ pc = "done"
    /\ Len(sentences) > Cardinality(used_sentences)
    /\ Range(sentences) \subseteq used_sentences
    /\ ~OtherPresent

\* C4 as stated: every topic node has at most 3 children and node-other is the
\* only node whose children are not capped, that is every node but node-other,
\* the root included, stays within the cap of 3.
C4_OnlyOtherUncapped ==
    pc = "done" =>
        /\ \A j \in 1..Len(mindmap.children) :
               ~IsOther(mindmap.children[j]) => Len(mindmap.children[j].children) <= 3
        /\ Len(mindmap.children) <= 3

\* C4 amended: every topic node has at most 3 children, whatever the number
\* of sentences and topics (the root and node-other are not capped).
C4_TopicAtMostThree ==
    Selected =>
        \A j \in 1..Len(mindmap.children) :
            ~IsOther(mindmap.children[j]) => Len(mindmap.children[j].children) <= 3

\* The cap binds on a topic while node-other holds more than 3 children.
C4_Witness ==
    /\ pc = "done"
    /\ Len(mindmap.children) >= 2
    /\ Len(mindmap.children[1].children) = 3
    /\ OtherPresent
    /\ Len(mindmap.children[Len(mindmap.children)].children) > 3

\* C5: with no keyword in any sentence and n >= 1 sentences the topic list is
\* the first min(3, n) sentences in order; with a keyword in some sentence the
\* fallback is not applied and the topics are exactly the sentences that
\* contain a keyword (each once, in the order of first occurrence).
C5_TopicSelection ==
    Selected =>
        LET n == Len(sentences)
            matching == { j \in 1..n : HasKeyword(sentences[j]) }
        IN IF matching = {}
           THEN n >= 1 =>
                    /\ Len(main_topics) = (IF n < 3 THEN n ELSE 3)
                    /\ \A j \in 1..Len(main_topics) : main_topics[j] = sentences[j]
           ELSE main_topics = FirstOccurrences(SelectSeq(sentences, HasKeyword))

C5_Witness ==
    /\ pc = "done"
    /\ Len(sentences) > 3
    /\ \A j \in 1..Len(sentences) : ~HasKeyword(sentences[j])
    /\ main_topics = SubSeq(sentences, 1, 3)

\* C6: in both branches the topic list holds each string at most once, holds
\* only sentences of the input, and is in the order of first occurrence in
\* the sentence sequence.
C6_TopicsUnique ==
    Selected =>
        /\ Distinct(main_topics)
        /\ Range(main_topics) \subseteq Range(sentences)
        /\ \A a, b \in 1..Len(main_topics) :
               a < b => FirstIndex(sentences, main_topics[a])
                          < FirstIndex(sentences, main_topics[b])

\* C7: the example summary gives 5 sentences, the two topics as node-0 and
\* node-1, node-0 with the three children "It affects the liver.", "Weather
\* was sunny.", "Final note here.", node-1 without children, no node-other.
C7_Example ==
    pc = "done" /\ full_summary = Example =>
        /\ Len(sentences) = 5
        /\ main_topics = << "Patient has a rare syndrome.", "Treatment is ongoing." >>
        /\ mindmap =
             [ id |-> "root", text |-> "Medical Document Overview",
               children |->
                 << [ id |-> "node-0", text |-> "Patient has a rare syndrome.",
                      children |->
                        << [ id |-> "node-0-sub-0", text |-> "It affects the liver." ],
                           [ id |-> "node-0-sub-1", text |-> "Weather was sunny." ],
                           [ id |-> "node-0-sub-2", text |-> "Final note here." ] >> ],
                    [ id |-> "node-1", text |-> "Treatment is ongoing.",
                      children |-> <<>> ] >> ]

\* The used-set when topic number j (1-based) scans for its children: the
\* texts of topics 1..j and the sub-node texts of topics 1..j-1.
UsedWhenBuilt(j) ==
    { mindmap.children[m].text : m \in 1..j }
      \cup UNION { Range(TextsOf(mindmap.children[m].children)) : m \in 1..(j - 1) }

\* The used-set after topics 1..j were built: their texts and sub-node texts.
UsedAfter(j) ==
    { mindmap.children[m].text : m \in 1..j }
      \cup UNION { Range(TextsOf(mindmap.children[m].children)) : m \in 1..j }

\* C8: the children of each built topic are the first min(3, u) sentences, in
\* sentence order, outside the used-set of that moment (each taken once); the
\* used-set holds the topics built so far and their sub-nodes, and no later
\* topic gets an earlier topic's sub-node sentence as a child.
C8_GreedyChildren ==
    Selected =>
        /\ \A j \in 1..i :
               LET unused == FirstOccurrences(
                                 SelectSeq(sentences,
                                           LAMBDA s : s \notin UsedWhenBuilt(j)))
                   u == Len(unused)
               IN TextsOf(mindmap.children[j].children)
                      = SubSeq(unused, 1, IF u < 3 THEN u ELSE 3)
        /\ used_sentences = UsedAfter(i)
        /\ \A a, b \in 1..i :
               a < b => Range(TextsOf(mindmap.children[a].children))
                          \cap Range(TextsOf(mindmap.children[b].children)) = {}

\* An earlier topic took 3 sentences, one of them repeated in the input, and
\* a later topic still got a child.
C8_Witness ==
    /\ Selected
    /\ i >= 2
    /\ ~Distinct(sentences)
    /\ Len(mindmap.children[1].children) = 3
    /\ Len(mindmap.children[2].children) >= 1

\* C9: ids follow position and are pairwise distinct: "root", "node-k" for the
\* k-th topic, "node-k-sub-j" for its j-th child (j = 0, 1, 2 without gaps),
\* "node-other" and "node-other-sub-m" (m from 0 without gaps).
C9_PositionalIds ==
    Selected =>
        /\ mindmap.id = "root"
        /\ Distinct(AllIds)
        /\ \A j \in 1..Len(mindmap.children) :
               LET node == mindmap.children[j]
                   stem == IF j <= i THEN "node-" \o ToString(j - 1) ELSE "node-other"
               IN /\ node.id = stem
                  /\ j <= i => Len(node.children) <= 3
                  /\ \A m \in 1..Len(node.children) :
                         node.children[m].id = stem \o "-sub-" \o ToString(m - 1)

C9_Witness ==
    /\ pc = "done"
    /\ i >= 2
    /\ Len(mindmap.children) = i + 1
    /\ Len(mindmap.children[1].children) = 3
    /\ Len(mindmap.children[i + 1].children) >= 2

\* C10: every sentence of the sequence is the text of some topic node, topic
\* sub-node or node-other sub-node of the returned tree, and each of these
\* texts is a sentence of the sequence.
C10_Coverage ==
    pc = "done" =>
        /\ Range(sentences) \subseteq Range(SentenceTexts)
        /\ Range(SentenceTexts) \subseteq Range(sentences)

C10_Witness ==
    /\ pc = "done"
    /\ i >= 2
    /\ OtherPresent
    /\ ~Distinct(sentences)

====
